---- MODULE Spec2Model ----
(***************************************************************************)
(* A model of src/src/data/acquisition/blender.py: the Transverse Mercator *)
(* projection, the compositor node tree built by create_nodes, the camera  *)
(* placed by place_camera, the staging directories drained by              *)
(* move_render_passes and the driver loop main2.                           *)
(*                                                                         *)
(* A file name is the sequence of its dots and dot-free pieces, which      *)
(* pathlib's stem and suffix are computed from; a directory is the set of  *)
(* its entries [name, data]; a value in degrees is <<whole, hair>>, whole  *)
(* degrees plus hair * 1e-7 degrees; an angle in radians is a fraction     *)
(* <<num, den>> of pi plus the hair; a float that the projection computes  *)
(* is its sign, its binary exponent and whether it is exactly 1 or -1.     *)
(***************************************************************************)
EXTENDS Integers, Sequences, FiniteSets, TLC

VARIABLES
    pc,          \* where the program is
    platform,    \* "posix" or "nt": decides what Path.rename does on a clash
    rl_outputs,  \* the output sockets the RenderLayers node offers
    host_suffix, \* the suffix of the files the render host writes
    dataset,     \* the rows read_data yields, in their order
    requested,   \* render_pass_names
    use_nodes,   \* bpy.context.scene.use_nodes
    nodes,       \* tree.nodes, in the order of creation
    links,       \* tree.links
    save_dirs,   \* what create_nodes returned
    staging,     \* the directories under tmp_dir: path -> entries, or NoDir
    output,      \* the entries of savedir
    beside,      \* the files next to savedir, in its parent directory
    camera,      \* bpy.context.scene.camera
    render,      \* bpy.context.scene.render
    origin,      \* the TransverseMercator instance
    n,           \* how many records read_data has yielded
    cur,         \* the record of the current iteration
    result,      \* what from_geographic returned last
    pre,         \* the directories as the last move_render_passes found them
    err          \* the exception that ended the run

vars == <<pc, platform, rl_outputs, host_suffix, dataset, requested, use_nodes, nodes,
          links, save_dirs, staging, output, beside, camera, render, origin, n, cur,
          result, pre, err>>

-----------------------------------------------------------------------------
(* Bounds *)

MaxRecords == 2

MaxLayers == 3

\* The most nodes the tree holds before init_node_tree is called again.
MaxNodes == 5

-----------------------------------------------------------------------------
(* pathlib *)

\* A file name is the sequence of its pieces, each a dot or a run of other
\* characters: "Image0001.jpg" is <<"Image0001", ".", "jpg">>, ".gitkeep" is
\* <<".", "gitkeep">>, "A." is <<"A", ".">>.
Dot == "."

\* The name text.ext; no dot when ext is empty.
Name(text, ext) ==
    (IF text = "" THEN <<>> ELSE <<text>>) \o (IF ext = "" THEN <<>> ELSE <<Dot, ext>>)

Jpg == <<Dot, "jpg">>

Png == <<Dot, "png">>

\* a + b of two strings: the pieces that meet become one unless one is a dot.
Cat(a, b) ==
    IF a = <<>> THEN b
    ELSE IF b = <<>> THEN a
    ELSE IF a[Len(a)] # Dot /\ b[1] # Dot
         THEN SubSeq(a, 1, Len(a) - 1) \o <<a[Len(a)] \o b[1]>> \o Tail(b)
         ELSE a \o b

\* name.rfind("."), counted in pieces; 0 when the name holds no dot.
LastDot(name) ==
    LET dots == {k \in DOMAIN name : name[k] = Dot}
    IN  IF dots = {} THEN 0 ELSE CHOOSE k \in dots : \A j \in dots : j <= k

\* PurePath.suffix: from the last dot on, unless that dot opens or ends the
\* name.
Suffix(name) ==
    LET i == LastDot(name)
    IN  IF 1 < i /\ i < Len(name) THEN SubSeq(name, i, Len(name)) ELSE <<>>

\* PurePath.stem
Stem(name) ==
    LET i == LastDot(name)
    IN  IF 1 < i /\ i < Len(name) THEN SubSeq(name, 1, i - 1) ELSE name

PathStem(p) == Stem(p[Len(p)])

PathParent(p) == SubSeq(p, 1, Len(p) - 1)

\* p / name; pathlib drops a segment that is empty or a single dot.
Join(p, name) == IF name \in {<<>>, <<Dot>>} THEN p ELSE Append(p, name)

\* with_stem(stem) is with_name(stem + self.suffix); the new name is parsed
\* anew by whatever reads its stem or suffix next.
WithStem(p, stem) == [p EXCEPT ![Len(p)] = Cat(stem, Suffix(@))]

\* with_suffix(suffix): the name less its suffix, plus the new one.
WithSuffix(p, suffix) == [p EXCEPT ![Len(p)] = Cat(Stem(@), suffix)]

\* A directory that does not exist, and one holding `entries`.
NoDir == [exists |-> FALSE, entries |-> {}]

Dir(entries) == [exists |-> TRUE, entries |-> entries]

NoErr == [type |-> "none", names |-> {}]

Error(type, names) == [type |-> type, names |-> names]

\* dir_.glob("*.*"): the paths of the entries whose name holds a dot; a
\* missing directory yields nothing.
Glob(stg, dir) ==
    IF ~stg[dir].exists THEN {}
    ELSE {Join(dir, e.name) : e \in {e \in stg[dir].entries : LastDot(e.name) # 0}}

Entry(stg, path) ==
    CHOOSE e \in stg[PathParent(path)].entries : e.name = path[Len(path)]

HasName(entries, name) == \E e \in entries : e.name = name

\* root_dir / "blender" of main2
savedir == <<Name("data", ""), Name("blender", "")>>

\* Path.rename(target) from a staging directory. The target lies in the
\* parent of output_dir, which is savedir / image_id: in savedir, or next to
\* savedir when the id added no segment. Into(dst) names that directory.
Into(dst) == IF PathParent(dst) = savedir THEN "output" ELSE "beside"

\* It replaces an existing target on POSIX and raises FileExistsError on
\* Windows.
Rename(fs, src, dst) ==
    LET e      == Entry(fs.staging, src)
        target == dst[Len(dst)]
    IN  IF HasName(fs[Into(dst)], target) /\ platform = "nt"
        THEN [fs EXCEPT !.err = Error("FileExistsError", {e.name, target})]
        ELSE [[fs EXCEPT !.staging[PathParent(src)].entries = @ \ {e}]
                 EXCEPT ![Into(dst)] = {o \in @ : o.name # target}
                                       \cup {[name |-> target, data |-> e.data]}]

NewFilepath(output_dir, image_id, pass_name) ==
    WithSuffix(WithStem(output_dir, Cat(Cat(image_id, <<"_">>), pass_name)), Jpg)

\* One turn of the loop of move_render_passes on directory k of the table,
\* for each file list(dir_.glob("*.*"))[0] may be: the set of the states the
\* loop can end in.
RECURSIVE MoveLoop(_, _, _, _)
MoveLoop(dirs, output_dir, k, fs) ==
    IF k > Len(dirs) THEN {fs}
    ELSE LET found == Glob(fs.staging, dirs[k])
         IN  IF found = {}
             THEN {[fs EXCEPT !.err = Error("IndexError", {})]}
             ELSE UNION {
                    LET pass_name    == PathStem(PathParent(pass_img_path))
                        new_filepath == NewFilepath(output_dir,
                                            PathStem(output_dir), pass_name)
                        after        == Rename(fs, pass_img_path, new_filepath)
                    IN  IF after.err # NoErr THEN {after}
                        ELSE MoveLoop(dirs, output_dir, k + 1, after)
                    : pass_img_path \in found }

move_render_passes(dirs, output_dir) ==
    MoveLoop(dirs, output_dir, 1,
             [staging |-> staging, output |-> output, beside |-> beside,
              err |-> NoErr])

-----------------------------------------------------------------------------
(* Angles: radians as the fraction <<num, den>> of pi, den > 0, reduced *)

Abs(i) == IF i < 0 THEN -i ELSE i

Sign(i) == IF i < 0 THEN -1 ELSE IF i = 0 THEN 0 ELSE 1

RECURSIVE Gcd(_, _)
Gcd(a, b) == IF b = 0 THEN a ELSE Gcd(b, a % b)

Frac(num, den) ==
    LET g == Gcd(Abs(num), den) IN <<num \div g, den \div g>>

RadSub(a, b) == Frac(a[1] * b[2] - b[1] * a[2], a[2] * b[2])

RadNeg(a) == <<-a[1], a[2]>>

\* A latitude or longitude in degrees is <<whole, hair>>: whole degrees plus
\* hair times 1e-7 of a degree, the hair being -1, 0 or 1. In radians it is
\* [whole, hair]: the fraction of pi of the whole degrees, and the hair,
\* 1.7e-9 rad each.
Hairs == {-1, 0, 1}

\* A value on whole degrees.
Whole(deg) == <<deg, 0>>

\* math.radians: degrees * pi / 180
radians(deg) == [whole |-> Frac(deg[1], 180), hair |-> deg[2]]

\* radians(lon) - self.lon
AngleSub(a, b) == [whole |-> RadSub(a.whole, b.whole), hair |-> a.hair - b.hair]

\* numpy.deg2rad, on whole degrees
deg2rad(degs) == [i \in DOMAIN degs |-> Frac(degs[i], 180)]

-----------------------------------------------------------------------------
(* Floats of the projection: the class [s, e, one, inf, of] of a double v. *)
(* s is its sign, e the binary exponent of |v| (up to the carry of a       *)
(* product), one says |v| = 1.0 exactly, inf that it overflowed, and of is *)
(* the angle whose tangent it is, when it is one (tagged).                 *)

Float(s, e, one) ==
    [s |-> s, e |-> e, one |-> one, inf |-> FALSE, tagged |-> FALSE, of |-> <<0, 1>>]

Zero == Float(0, 0, FALSE)

One == Float(1, 0, TRUE)

FNeg(v) == [v EXCEPT !.s = -@, !.of = RadNeg(@)]

\* The doubles math.sin, math.cos and math.tan return at the multiples of
\* pi/4 from -3pi/2 to 3pi/2 (math.tan: from -pi/2 to pi/2, the latitudes):
\* sin(pi/2) is 1.0 and cos(pi/2) is 6.1e-17, not 0.
SinAt(a) ==
    CASE a = <<0, 1>>                           -> Zero
      [] a \in {<<1, 2>>, <<-3, 2>>}            -> One
      [] a \in {<<-1, 2>>, <<3, 2>>}            -> FNeg(One)
      [] a \in {<<1, 4>>, <<3, 4>>, <<-5, 4>>}  -> Float(1, -1, FALSE)
      [] a \in {<<-1, 4>>, <<-3, 4>>, <<5, 4>>} -> Float(-1, -1, FALSE)
      [] a = <<1, 1>>                           -> Float(1, -53, FALSE)
      [] a = <<-1, 1>>                          -> Float(-1, -53, FALSE)

CosAt(a) ==
    CASE a = <<0, 1>>                                      -> One
      [] a \in {<<1, 4>>, <<-1, 4>>}                       -> Float(1, -1, FALSE)
      [] a \in {<<1, 2>>, <<-1, 2>>}                       -> Float(1, -54, FALSE)
      [] a \in {<<3, 4>>, <<-3, 4>>, <<5, 4>>, <<-5, 4>>}  -> Float(-1, -1, FALSE)
      [] a \in {<<1, 1>>, <<-1, 1>>}                       -> FNeg(One)
      [] a \in {<<3, 2>>, <<-3, 2>>}                       -> Float(-1, -53, FALSE)

TanAt(a) ==
    CASE a = <<0, 1>>  -> Zero
      [] a = <<1, 4>>  -> Float(1, -1, FALSE)
      [] a = <<-1, 4>> -> Float(-1, -1, FALSE)
      [] a = <<1, 2>>  -> Float(1, 53, FALSE)
      [] a = <<-1, 2>> -> Float(-1, 53, FALSE)

\* The binary exponent of a few hairs in radians: 1.7e-9 is 2^-30 and more.
HairExp(h) == IF Abs(h) = 1 THEN -30 ELSE -29

\* math.sin a hair off a multiple of pi/4: exactly 1.0 or -1.0 still where
\* the sine peaks (1 - 1.5e-18 rounds to 1.0), the hair itself near the
\* zeros, and in the class of the grid point elsewhere.
Sin(a) ==
    LET base == SinAt(a.whole)
    IN  IF a.hair = 0 \/ base.one THEN base
        ELSE IF a.whole[2] = 1
             THEN Float(Sign(a.hair) * CosAt(a.whole).s, HairExp(a.hair), FALSE)
             ELSE base

\* math.cos, likewise: 1.7e-9 in size a hair off pi/2, not 6.1e-17.
Cos(a) ==
    LET base == CosAt(a.whole)
    IN  IF a.hair = 0 \/ base.one THEN base
        ELSE IF a.whole[2] = 2
             THEN Float(-Sign(a.hair) * SinAt(a.whole).s, HairExp(a.hair), FALSE)
             ELSE base

\* math.tan of a latitude; on a whole degree the result is marked as the
\* tangent of that angle, which math.atan gives back.
Tan(a) ==
    LET base == TanAt(a.whole)
    IN  IF a.hair = 0 THEN [base EXCEPT !.tagged = TRUE, !.of = a.whole]
        ELSE IF a.whole[2] = 1 THEN Float(Sign(a.hair), HairExp(a.hair), FALSE)
        ELSE IF a.whole[2] = 2 THEN Float(-Sign(a.hair), -1 - HairExp(a.hair), FALSE)
        ELSE Float(base.s, IF Sign(a.hair) * base.s > 0 THEN 0 ELSE -1, FALSE)

FMul(a, b) ==
    IF a.s = 0 \/ b.s = 0 \/ a.e + b.e < -1074 THEN Zero
    ELSE [s |-> a.s * b.s, e |-> a.e + b.e, one |-> a.one /\ b.one,
          inf |-> a.inf \/ b.inf \/ a.e + b.e > 1023,
          tagged |-> FALSE, of |-> <<0, 1>>]

\* 1 + v for |v| <= 1: v is absorbed when it is under half an ulp of 1.0,
\* 2^-53 above 1.0 and 2^-54 below it.
Add1(v) ==
    CASE v.s = 0                -> One
      [] v.s > 0 /\ v.e <= -54  -> One
      [] v.s > 0 /\ v.e > -54   -> Float(1, IF v.one THEN 1 ELSE 0, FALSE)
      [] v.s < 0 /\ v.one       -> Zero
      [] v.s < 0 /\ v.e <= -55  -> One
      [] OTHER                  -> Float(1, -1, FALSE)

Sub1(v) == Add1(FNeg(v))

\* a / b: [err, v]. Python raises ZeroDivisionError on a zero divisor and
\* returns inf on overflow.
FDiv(a, b) ==
    IF b.s = 0 THEN [err |-> Error("ZeroDivisionError", {}), v |-> Zero]
    ELSE IF a.s = 0 THEN [err |-> NoErr, v |-> Zero]
    ELSE [err |-> NoErr,
          v   |-> [s |-> a.s * b.s, e |-> a.e - b.e, one |-> a.one /\ b.one,
                   inf |-> a.inf \/ a.e - b.e > 1023,
                   tagged |-> a.tagged /\ b.one,
                   of |-> IF a.tagged /\ b.one
                          THEN (IF b.s < 0 THEN RadNeg(a.of) ELSE a.of)
                          ELSE <<0, 1>>]]

\* math.log: ValueError ("math domain error") at 0 and below.
Log(v) ==
    IF v.s <= 0 THEN [err |-> Error("ValueError", {}), v |-> Zero]
    ELSE IF v.one THEN [err |-> NoErr, v |-> Zero]
    ELSE [err |-> NoErr,
          v   |-> [Float(IF v.e >= 0 THEN 1 ELSE -1, 0, FALSE)
                     EXCEPT !.inf = v.inf]]

\* math.atan, as the bracket of the angle between lo and hi, an end being a
\* possible result when lo_in or hi_in says so: the angle itself for the
\* tangent of an angle and for 0, else the quadrant. The far end of the
\* quadrant, the double of pi/2, is the result from 2^53 on, is not under
\* 2^52, and between them depends on the mantissa; the exponent of a quotient
\* is known up to one binade (it is e or e - 1).
Bracket(lo, lo_in, hi, hi_in) == [lo |-> lo, lo_in |-> lo_in, hi |-> hi, hi_in |-> hi_in]

Atan(v) ==
    CASE v.s = 0              -> Bracket(<<0, 1>>, TRUE, <<0, 1>>, TRUE)
      [] v.s # 0 /\ v.tagged  -> Bracket(v.of, TRUE, v.of, TRUE)
      [] v.s # 0 /\ ~v.tagged /\ (v.inf \/ v.e >= 54)
                              -> Bracket(<<v.s, 2>>, TRUE, <<v.s, 2>>, TRUE)
      [] OTHER                -> IF v.s > 0
                                 THEN Bracket(<<0, 1>>, FALSE, <<1, 2>>, v.e >= 52)
                                 ELSE Bracket(<<-1, 2>>, v.e >= 52, <<0, 1>>, FALSE)

\* A coordinate: its sign (2 when the bracket does not decide it) and
\* whether it is finite.
Coord(s, finite) == [s |-> s, finite |-> finite]

radius == 6378137

Scale == 1

\* The sign of angle - lat0, the angle on a multiple of a degree: the whole
\* degrees decide, and the hair of lat0 where they are equal.
Beyond(angle, lat0) ==
    LET whole == Sign(RadSub(angle, lat0.whole)[1])
    IN  IF whole # 0 THEN whole ELSE -Sign(lat0.hair)

\* scale * radius * (atan(...) - self.lat)
YCoord(bracket, lat0) ==
    LET lo == Beyond(bracket.lo, lat0)
        hi == Beyond(bracket.hi, lat0)
    IN  Coord(Sign(Scale * radius) *
              (IF bracket.lo = bracket.hi THEN lo
               ELSE IF lo > 0 \/ (lo = 0 /\ ~bracket.lo_in) THEN 1
               ELSE IF hi < 0 \/ (hi = 0 /\ ~bracket.hi_in) THEN -1
               ELSE 2), TRUE)

\* 0.5 * scale * radius * log(...)
XCoord(lg) == Coord(Sign(Scale * radius) * lg.s, ~lg.inf)

TransverseMercator(lat, lon) == [lat |-> radians(lat), lon |-> radians(lon)]

NoCoord == Coord(0, TRUE)

\* radians(lon) - self.lon of two longitudes the same hair off their whole
\* degrees is the whole difference up to a rounding residue of a few 1e-16,
\* which is what math.sin returns at the multiples of pi and math.cos at the
\* odd multiples of pi/2: their sign is then not decided. In size the
\* residue stays what it is on whole degrees.
Residue(self, lon, den) ==
    self.lon.hair # 0 /\ lon.hair = 0 /\ lon.whole # <<0, 1>> /\ lon.whole[2] = den

\* TransverseMercator.from_geographic: [err, x, y]
from_geographic(self, lat_deg, lon_deg) ==
    LET lat   == radians(lat_deg)
        lon   == AngleSub(radians(lon_deg), self.lon)
        B     == FMul(Sin(lon), Cos(lat))
        ratio == FDiv(Add1(B), Sub1(B))
        lg    == Log(ratio.v)
        quot  == FDiv(Tan(lat), Cos(lon))
    IN  IF ratio.err # NoErr THEN [err |-> ratio.err, x |-> NoCoord, y |-> NoCoord]
        ELSE IF lg.err # NoErr THEN [err |-> lg.err, x |-> NoCoord, y |-> NoCoord]
        ELSE IF quot.err # NoErr THEN [err |-> quot.err, x |-> NoCoord, y |-> NoCoord]
        ELSE [err |-> NoErr,
              x   |-> IF Residue(self, lon, 1) THEN Coord(2, TRUE)
                      ELSE XCoord(lg.v),
              y   |-> IF Residue(self, lon, 2) /\ quot.v.s # 0 THEN Coord(2, TRUE)
                      ELSE YCoord(Atan(quot.v), self.lat)]

-----------------------------------------------------------------------------
(* The scene: camera, render settings, compositor node tree *)

width == 2048

aspect_ratio == 2

NoPath == <<>>

Range(f) == {f[i] : i \in DOMAIN f}

Node(name, type, location, base_path) ==
    [name |-> name, type |-> type, location |-> location, base_path |-> base_path]

Link(from_node, from_socket, to_node) ==
    [from_node |-> from_node, from_socket |-> from_socket,
     to_node |-> to_node, to_socket |-> 0]

RenderLayers == Name("RenderLayers", "")

\* tree = bpy.context.scene.node_tree is None in a scene that never used
\* nodes, and tree.nodes then raises AttributeError.
NoTree(tree) == ~tree.use_nodes

\* for node in tree.nodes: tree.nodes.remove(node); a removed node's links
\* go with it.
RemoveNodes(tree) ==
    IF NoTree(tree) THEN [tree EXCEPT !.err = Error("AttributeError", {})]
    ELSE [tree EXCEPT !.nodes = <<>>, !.links = {}]

\* One turn of the loop of create_nodes, on render_pass_names[i]. The sink is
\* made before the socket is looked up, so a KeyError leaves it unlinked.
RECURSIVE CreateLoop(_, _, _, _)
CreateLoop(tmp_dir, names, i, tree) ==
    IF i > Len(names) THEN tree
    ELSE LET render_pass_name == names[i]
             save_dir == Join(tmp_dir, render_pass_name)
             sink     == Node(render_pass_name, "CompositorNodeOutputFile",
                              <<400, -120 * (i - 1)>>, save_dir)
             made     == [tree EXCEPT !.nodes = Append(@, sink),
                                      !.save_dirs[i] = save_dir]
         IN  IF render_pass_name \notin rl_outputs
             THEN [made EXCEPT !.err = Error("KeyError", {render_pass_name})]
             ELSE CreateLoop(tmp_dir, names, i + 1,
                    [made EXCEPT !.links = @ \cup
                       {Link(RenderLayers, render_pass_name, render_pass_name)}])

\* create_nodes: [nodes, links, save_dirs, err]; save_dirs is returned only
\* when err is NoErr.
create_nodes(tmp_dir, render_pass_names) ==
    LET cleared == RemoveNodes([use_nodes |-> use_nodes,
                                nodes |-> nodes, links |-> links,
                                save_dirs |-> [i \in 1..Len(render_pass_names) |-> NoPath],
                                err |-> NoErr])
        source  == Node(RenderLayers, "CompositorNodeRLayers", <<0, 0>>, NoPath)
    IN  IF cleared.err # NoErr THEN cleared
        ELSE CreateLoop(tmp_dir, render_pass_names, 1,
                        [cleared EXCEPT !.nodes = Append(@, source)])

\* The functions of the one-pass-at-a-time rendering, which main2 does not
\* call.
Composite == Name("Composite", "")

Combined == Name("Combined", "")

\* tree.nodes.get(name): the first node of that name, if any.
Has(tree, name) == \E i \in DOMAIN tree.nodes : tree.nodes[i].name = name

\* init_node_tree: nothing is cleared; a second call adds a second pair.
init_node_tree(tree) ==
    [tree EXCEPT !.use_nodes = TRUE,
                 !.nodes = @ \o
                    <<Node(RenderLayers, "CompositorNodeRLayers", <<0, 0>>, NoPath),
                      Node(Composite, "CompositorNodeComposite", <<400, 0>>, NoPath)>>]

\* tree.links.new(render_pass, composite_node.inputs[0]). Whether the link
\* already into that input is dropped is the host's doing: `replaces`.
NewLink(tree, link, replaces) ==
    [tree EXCEPT !.links =
        {l \in @ : ~(replaces /\ l.to_node = link.to_node
                              /\ l.to_socket = link.to_socket)} \cup {link}]

\* select_pass: [use_nodes, nodes, links, err]
select_pass(tree, pass_name, replaces) ==
    CASE ~Has(tree, RenderLayers) ->
            [tree EXCEPT !.err = Error("AttributeError", {})]
      [] Has(tree, RenderLayers) /\ pass_name \notin rl_outputs ->
            [tree EXCEPT !.err = Error("KeyError", {pass_name})]
      [] Has(tree, RenderLayers) /\ pass_name \in rl_outputs
                                 /\ ~Has(tree, Composite) ->
            [tree EXCEPT !.err = Error("AttributeError", {})]
      [] OTHER ->
            NewLink(tree, Link(RenderLayers, pass_name, Composite), replaces)

\* clean_nodes
clean_nodes(tree) == RemoveNodes(tree)

\* mapillary_to_euler
mapillary_to_euler(compass_orientation) ==
    deg2rad(<<90, 0, -compass_orientation>>)

\* The default of place_camera's offset_altitude, 0.3 m, in decimetres, the
\* unit of the altitudes.
offset_altitude == 3

\* place_camera with a fault: the position is written, the orientation is not.
place_camera_location_only(cam, xyz, computed_compass_angle) ==
    [cam EXCEPT !.location = <<xyz[1], xyz[2], xyz[3] + offset_altitude>>]

place_camera(cam, xyz, computed_compass_angle) ==
    [cam EXCEPT !.location = <<xyz[1], xyz[2], xyz[3] + offset_altitude>>,
                !.rotation_euler = mapillary_to_euler(computed_compass_angle)]


-----------------------------------------------------------------------------
(* The names main2 uses, and the inputs the model draws *)

Depth == Name("Depth", "")

Normal == Name("Normal", "")

DiffCol == Name("DiffCol", "")

Mist == Name("Mist", "")

PassNames == {Depth, Normal, DiffCol, Mist}

\* render_pass_names of main2
main_render_pass_names == <<Depth, Normal, DiffCol>>

tmp_dir == <<Name("data", ""), Name("tmp", "")>>

StagingDirs == {Join(tmp_dir, l) : l \in PassNames}

\* What a file holds: the pass the render host wrote, and for which record
\* (0: before this run).
Data(rec, layer) == [rec |-> rec, layer |-> layer]

File(name, data) == [name |-> name, data |-> data]

\* The file the render host writes into a sink's directory: the slot's
\* path, the frame number and the suffix of the host's format.
HostName == Cat(<<"Image0001">>, host_suffix)

HostSuffixes == {Jpg, Png}

\* A file an earlier session left in the staging directory of `layer`.
Stale(layer) == File(Name("Image0000", "jpg"), Data(0, layer))

\* The nodes of a scene whose compositor is in use before the program runs.
DefaultNodes ==
    <<Node(Name("Render Layers", ""), "CompositorNodeRLayers", <<0, 0>>, NoPath),
      Node(Name("Composite", ""), "CompositorNodeComposite", <<300, 0>>, NoPath)>>

DefaultLinks ==
    {Link(Name("Render Layers", ""), Name("Image", ""), Name("Composite", ""))}

DefaultCamera ==
    [location |-> <<NoCoord, NoCoord, 0>>,
     rotation_euler |-> deg2rad(<<0, 0, 0>>),
     type |-> "PERSP", panorama_type |-> "NONE", panorama_resolution |-> 0]

DefaultRender ==
    [engine |-> "BLENDER_EEVEE", resolution_x |-> 1920, resolution_y |-> 1080,
     file_format |-> "PNG", filepath |-> <<Name("tmp", "")>>]

Record(id, lon, lat, alt, angle) ==
    [image_id |-> id, lon |-> lon, lat |-> lat, computed_altitude |-> alt,
     computed_compass_angle |-> angle]

NoRecord == Record(Name("", ""), Whole(0), Whole(0), 0, 0)

NoResult == [err |-> NoErr, x |-> NoCoord, y |-> NoCoord]

NoPre == [staging |-> [d \in StagingDirs |-> NoDir], output |-> {}]

Ids == {Name("A", ""), Name("B", "")}

\* The rows a dataset may hold: the id, lon, lat, the altitude in decimetres,
\* the compass angle in degrees.
Rows == {Record(Name("A", ""), Whole(45), Whole(45), 100, 0),
         Record(Name("B", ""), Whole(90), Whole(0), 100, 90),
         Record(Name("B", ""), <<90, -1>>, Whole(0), 100, 90),
         Record(Name("A", ""), Whole(-90), Whole(0), 25, 450),
         Record(Name("B", ""), Whole(45), Whole(0), 25, -90)}

\* The datasets: up to MaxRecords rows, in any order, a row more than once.
Datasets == UNION {[1..k -> Rows] : k \in 0..MaxRecords}

\* scene["lat"], scene["lon"]
SceneOrigins == {<<Whole(45), Whole(45)>>, <<Whole(0), Whole(0)>>,
                 <<<<45, 1>>, <<0, -1>>>>}

-----------------------------------------------------------------------------
(* The steps of main2 *)

create_camera ==
    /\ pc = "start"
    /\ camera' = [location |-> <<NoCoord, NoCoord, 0>>,
                  rotation_euler |-> deg2rad(<<0, 0, 0>>),
                  type |-> "PANO", panorama_type |-> "EQUIRECTANGULAR",
                  panorama_resolution |-> width]
    /\ render' = [render EXCEPT !.engine = "CYCLES",
                                 !.resolution_x = width,
                                 !.resolution_y = width \div aspect_ratio,
                                 !.file_format = "JPEG"]
    /\ pc' = "nodes"
    /\ UNCHANGED <<platform, rl_outputs, host_suffix, dataset, requested, use_nodes, nodes,
                   links, save_dirs, staging, output, beside, origin, n, cur, result, pre, err>>

CreateNodes ==
    /\ pc = "nodes"
    /\ LET tree == create_nodes(tmp_dir, requested)
       IN  /\ nodes' = tree.nodes
           /\ links' = tree.links
           /\ err' = tree.err
           /\ save_dirs' = IF tree.err = NoErr THEN tree.save_dirs ELSE save_dirs
           /\ pc' = IF tree.err = NoErr THEN "projection" ELSE "halted"
    /\ UNCHANGED <<platform, rl_outputs, host_suffix, dataset, requested, use_nodes,
                   staging, output, beside, camera, render, origin, n, cur, result, pre>>

MakeProjection ==
    /\ pc = "projection"
    /\ \E o \in SceneOrigins : origin' = TransverseMercator(o[1], o[2])
    /\ pc' = "read"
    /\ UNCHANGED <<platform, rl_outputs, host_suffix, dataset, requested, use_nodes, nodes,
                   links, save_dirs, staging, output, beside, camera, render, n, cur, result,
                   pre, err>>

\* The for loop over read_data: the next row, or the end of the dataset.
ReadData ==
    /\ pc = "read"
    /\ \/ /\ n < Len(dataset)
          /\ cur' = dataset[n + 1]
          /\ n' = n + 1
          /\ pc' = "place"
       \/ /\ n >= Len(dataset)
          /\ pc' = "done"
          /\ UNCHANGED <<n, cur>>
    /\ UNCHANGED <<platform, rl_outputs, host_suffix, dataset, requested, use_nodes, nodes,
                   links, save_dirs, staging, output, beside, camera, render, origin, result,
                   pre, err>>

\* x, y = projection.from_geographic(lat, lon); place_camera((x, y, alt), angle)
Place ==
    /\ pc = "place"
    /\ LET xy == from_geographic(origin, cur.lat, cur.lon)
       IN  /\ result' = xy
           /\ err' = xy.err
           /\ camera' = IF xy.err = NoErr
                        THEN place_camera(camera,
                                          <<xy.x, xy.y, cur.computed_altitude>>,
                                          cur.computed_compass_angle)
                        ELSE camera
           /\ pc' = IF xy.err = NoErr THEN "render" ELSE "halted"
    /\ UNCHANGED <<platform, rl_outputs, host_suffix, dataset, requested, use_nodes, nodes,
                   links, save_dirs, staging, output, beside, render, origin, n, cur, pre>>

\* The directory of a sink after bpy.ops.render.render(write_still=True): made
\* if missing, holding the host's file, which replaces one of the same name.
Written(dir, sink, rec) ==
    Dir({e \in dir.entries : e.name # HostName}
        \cup {File(HostName, Data(rec, sink.name))})

Linked(tree, node) ==
    /\ node.type = "CompositorNodeOutputFile"
    /\ \E l \in tree.links : l.to_node = node.name

\* The staging directories after one render: every wired File Output node
\* of a scene that uses its node tree writes its file.
RenderSinks(tree, stag, rec) ==
    [d \in StagingDirs |->
       IF tree.use_nodes
          /\ \E s \in Range(tree.nodes) : Linked(tree, s) /\ s.base_path = d
       THEN Written(stag[d],
                    CHOOSE s \in Range(tree.nodes) :
                        Linked(tree, s) /\ s.base_path = d,
                    rec)
       ELSE stag[d]]

\* The node tree of the scene.
Tree == [use_nodes |-> use_nodes, nodes |-> nodes, links |-> links, err |-> NoErr]

\* bpy.ops.render.render(write_still=True) of main2. The still image goes to
\* scene.render.filepath, which main2 leaves outside tmp_dir and savedir.
Render ==
    /\ pc = "render"
    /\ staging' = RenderSinks(Tree, staging, n)
    /\ pc' = "reconcile"
    /\ UNCHANGED <<platform, rl_outputs, host_suffix, dataset, requested, use_nodes, nodes,
                   links, save_dirs, output, beside, camera, render, origin, n, cur,
                   result, pre, err>>

\* move_render_passes(save_dirs, savedir / image_id)
Reconcile ==
    /\ pc = "reconcile"
    /\ pre' = [staging |-> staging, output |-> output]
    /\ \E after \in move_render_passes(save_dirs, Join(savedir, cur.image_id)) :
          /\ staging' = after.staging
          /\ output' = after.output
          /\ beside' = after.beside
          /\ err' = after.err
          /\ pc' = IF after.err = NoErr THEN "read" ELSE "halted"
    /\ UNCHANGED <<platform, rl_outputs, host_suffix, dataset, requested, use_nodes, nodes,
                   links, save_dirs, camera, render, origin, n, cur, result>>

-----------------------------------------------------------------------------
(* main2 from its start *)

Platforms == {"posix", "nt"}

\* A file an earlier run left in savedir (rec -1).
LeftOver(stem, layer) == File(Name(stem, "jpg"), Data(-1, layer))

Init ==
    /\ pc = "start"
    /\ platform \in Platforms
    /\ rl_outputs \in {{Depth, Normal, DiffCol, Mist}, {Depth, Normal}}
    /\ host_suffix \in HostSuffixes
    /\ requested = main_render_pass_names
    /\ \E scene \in {<<FALSE, <<>>, {}>>, <<TRUE, <<>>, {}>>,
                     <<TRUE, DefaultNodes, DefaultLinks>>} :
          /\ use_nodes = scene[1]
          /\ nodes = scene[2]
          /\ links = scene[3]
    /\ save_dirs = <<>>
    /\ \E stale \in SUBSET {Depth, Normal} :
          staging = [d \in StagingDirs |->
                       IF d[Len(d)] \in stale THEN Dir({Stale(d[Len(d)])})
                       ELSE NoDir]
    /\ output \in SUBSET {LeftOver("A_Normal", Normal)}
    /\ beside = {}
    /\ camera = DefaultCamera
    /\ render = DefaultRender
    /\ origin = TransverseMercator(Whole(0), Whole(0))
    /\ dataset \in Datasets
    /\ n = 0
    /\ cur = NoRecord
    /\ result = NoResult
    /\ pre = NoPre
    /\ err = NoErr

Next ==
    \/ create_camera
    \/ CreateNodes
    \/ MakeProjection
    \/ ReadData
    \/ Place
    \/ Render
    \/ Reconcile

Spec == Init /\ [][Next]_vars


-----------------------------------------------------------------------------
(* create_nodes alone, on any scene and any list of distinct pass names *)

\* The lists of distinct names of `names`, up to MaxLayers long.
PassLists ==
    {l \in UNION {[1..k -> PassNames] : k \in 0..MaxLayers} :
        \A i, j \in DOMAIN l : i # j => l[i] # l[j]}

\* The tree an earlier create_nodes(tmp_dir, names) left.
BuiltNodes(names) ==
    <<Node(RenderLayers, "CompositorNodeRLayers", <<0, 0>>, NoPath)>>
    \o [i \in DOMAIN names |->
          Node(names[i], "CompositorNodeOutputFile", <<400, -120 * (i - 1)>>,
               Join(tmp_dir, names[i]))]

BuiltLinks(names) ==
    {Link(RenderLayers, names[i], names[i]) : i \in DOMAIN names}

BuiltDirs(names) == [i \in DOMAIN names |-> Join(tmp_dir, names[i])]

InitBuild ==
    /\ pc = "nodes"
    /\ platform = "posix"
    /\ rl_outputs \in {PassNames, {Depth, Normal, DiffCol}, {Depth, Normal}}
    /\ host_suffix = Jpg
    /\ requested \in PassLists
    /\ \E tree \in {<<<<>>, {}>>, <<DefaultNodes, DefaultLinks>>,
                    <<BuiltNodes(<<Normal, Depth>>), BuiltLinks(<<Normal, Depth>>)>>,
                    <<init_node_tree([use_nodes |-> FALSE, nodes |-> <<>>]).nodes,
                      {Link(RenderLayers, Depth, Composite)}>>} :
          /\ nodes = tree[1]
          /\ links = tree[2]
          /\ use_nodes \in (IF tree[1] = <<>> THEN BOOLEAN ELSE {TRUE})
    /\ save_dirs = <<>>
    /\ \E kind \in {"missing", "empty", "stale"} :
          staging = [d \in StagingDirs |->
                       CASE kind = "missing" -> NoDir
                         [] kind = "empty"   -> Dir({})
                         [] kind = "stale"   -> Dir({Stale(d[Len(d)])})]
    /\ output = {}
    /\ beside = {}
    /\ camera = DefaultCamera
    /\ render = DefaultRender
    /\ origin = TransverseMercator(Whole(0), Whole(0))
    /\ dataset = <<>>
    /\ n = 0
    /\ cur = NoRecord
    /\ result = NoResult
    /\ pre = NoPre
    /\ err = NoErr

SpecBuild == InitBuild /\ [][CreateNodes]_vars

-----------------------------------------------------------------------------
(* move_render_passes alone, on any content of the staging directories *)

\* What a staging directory may hold when move_render_passes is called.
DirContents(layer) ==
    {NoDir, Dir({}),
     Dir({File(Name("Image0001", "jpg"), Data(1, layer))}),
     Dir({File(Name("Image0001", "png"), Data(1, layer))}),
     Dir({File(Name("Image0001", ""), Data(1, layer))}),
     Dir({File(Name("", "gitkeep"), Data(0, layer))}),
     Dir({File(<<"a", Dot>>, Data(1, layer))}),
     Dir({File(Name("", "gitkeep"), Data(0, layer)),
          File(Name("Image0001", "jpg"), Data(1, layer))}),
     Dir({Stale(layer), File(Name("Image0001", "jpg"), Data(1, layer))})}

InitReconcile ==
    /\ pc = "reconcile"
    /\ platform \in Platforms
    /\ rl_outputs = {Depth, Normal, DiffCol}
    /\ host_suffix = Jpg
    /\ requested = <<Depth, Normal>>
    /\ use_nodes = TRUE
    /\ nodes = BuiltNodes(requested)
    /\ links = BuiltLinks(requested)
    /\ save_dirs = BuiltDirs(requested)
    /\ \E d \in DirContents(Depth), m \in DirContents(Normal) :
          staging = [p \in StagingDirs |->
                       CASE p[Len(p)] = Depth  -> d
                         [] p[Len(p)] = Normal -> m
                         [] OTHER              -> NoDir]
    /\ output \in SUBSET {LeftOver("A_Depth", Depth), LeftOver("A_Normal", Normal)}
    /\ beside \in SUBSET {LeftOver("blender_Depth", Depth)}
    /\ camera = DefaultCamera
    /\ render = DefaultRender
    /\ origin = TransverseMercator(Whole(0), Whole(0))
    /\ n = 1
    /\ \E id \in Ids \cup {Name("A", "1"), <<"A", Dot>>, <<>>, <<Dot>>} :
          cur = Record(id, Whole(0), Whole(0), 100, 0)
    /\ dataset = <<cur>>
    /\ result = NoResult
    /\ pre = NoPre
    /\ err = NoErr

SpecReconcile == InitReconcile /\ [][Reconcile]_vars

-----------------------------------------------------------------------------
(* from_geographic and place_camera alone, on a grid of origins and points *)

InitProjection ==
    /\ pc = "place"
    /\ platform = "posix"
    /\ rl_outputs = {Depth, Normal, DiffCol}
    /\ host_suffix = Jpg
    /\ requested = main_render_pass_names
    /\ use_nodes = TRUE
    /\ nodes = BuiltNodes(requested)
    /\ links = BuiltLinks(requested)
    /\ save_dirs = BuiltDirs(requested)
    /\ staging = [d \in StagingDirs |-> NoDir]
    /\ output = {}
    /\ beside = {}
    /\ camera = DefaultCamera
    /\ render = DefaultRender
    /\ \E lat0 \in {-45, 0, 45} \X Hairs, lon0 \in {0, 45} \X Hairs :
          origin = TransverseMercator(lat0, lon0)
    /\ n = 1
    /\ \E lat \in {-90, -45, 0, 45, 90} \X Hairs,
          lon \in {-180, -135, -90, -45, 0, 45, 90, 135, 180, 225, 270} \X Hairs :
          cur = Record(Name("A", ""), lon, lat, 100, 0)
    /\ dataset = <<cur>>
    /\ result = NoResult
    /\ pre = NoPre
    /\ err = NoErr

SpecProjection == InitProjection /\ [][Place]_vars


-----------------------------------------------------------------------------
(* The functions main2 does not call: init_node_tree, select_pass,         *)
(* clean_nodes and render_equirectangle_streetview, which render one pass  *)
(* at a time through the Composite node, straight to the output path       *)

\* The image of a render goes to scene.render.filepath, replacing a file of
\* that name; it shows the pass wired to the Composite node when the scene
\* uses its node tree and the combined image otherwise.
StillWritten(out, filepath, rec, layer_name, tree) ==
    LET name == filepath[Len(filepath)]
    IN  {e \in out : e.name # name}
        \cup {File(name, Data(rec, IF tree.use_nodes THEN layer_name
                                   ELSE Combined))}

\* The loop of render_equirectangle_streetview, on layers_to_render[i].
RECURSIVE RenderLoop(_, _, _, _, _, _)
RenderLoop(layers_to_render, i, savepath, rec, replaces, st) ==
    IF i > Len(layers_to_render) THEN st
    ELSE LET layer_name == layers_to_render[i]
             tree == select_pass(st.tree, layer_name, replaces)
             savepath_layer ==
                 WithSuffix(WithStem(savepath,
                                     Cat(Cat(PathStem(savepath), <<"_">>),
                                         layer_name)),
                            Jpg)
         IN  IF tree.err # NoErr THEN [st EXCEPT !.tree = tree]
             ELSE RenderLoop(layers_to_render, i + 1, savepath, rec, replaces,
                    [st EXCEPT !.tree = tree,
                               !.filepath = savepath_layer,
                               !.staging = RenderSinks(tree, @, rec),
                               ![Into(savepath_layer)] =
                                   StillWritten(@, savepath_layer, rec,
                                                layer_name, tree)])

\* render_equirectangle_streetview: the camera takes xyz as given.
render_equirectangle_streetview(xyz, computed_compass_angle, layers_to_render, savepath, rec, replaces) ==
    RenderLoop(layers_to_render, 1, savepath, rec, replaces,
        [tree     |-> [use_nodes |-> use_nodes, nodes |-> nodes,
                       links |-> links, err |-> NoErr],
         camera   |-> [camera EXCEPT
                         !.location = xyz,
                         !.rotation_euler = mapillary_to_euler(computed_compass_angle)],
         filepath |-> render.filepath,
         staging  |-> staging,
         output   |-> output,
         beside   |-> beside])

InitNodeTree ==
    /\ pc = "direct"
    /\ Len(nodes) + 2 <= MaxNodes
    /\ LET tree == init_node_tree(Tree)
       IN  /\ use_nodes' = tree.use_nodes
           /\ nodes' = tree.nodes
    /\ UNCHANGED <<pc, platform, rl_outputs, host_suffix, dataset, requested, links,
                   save_dirs, staging, output, beside, camera, render, origin, n, cur,
                   result, pre, err>>

SelectPass ==
    /\ pc = "direct"
    /\ \E pass_name \in PassNames, replaces \in BOOLEAN :
          LET tree == select_pass([use_nodes |-> use_nodes, nodes |-> nodes,
                                   links |-> links, err |-> NoErr],
                                  pass_name, replaces)
          IN  /\ links' = tree.links
              /\ err' = tree.err
              /\ pc' = IF tree.err = NoErr THEN "direct" ELSE "halted"
    /\ UNCHANGED <<platform, rl_outputs, host_suffix, dataset, requested, use_nodes, nodes,
                   save_dirs, staging, output, beside, camera, render, origin, n, cur,
                   result, pre>>

CleanNodes ==
    /\ pc = "direct"
    /\ LET tree == clean_nodes(Tree)
       IN  /\ nodes' = tree.nodes
           /\ links' = tree.links
           /\ err' = tree.err
           /\ pc' = IF tree.err = NoErr THEN "direct" ELSE "halted"
    /\ UNCHANGED <<platform, rl_outputs, host_suffix, dataset, requested, use_nodes,
                   save_dirs, staging, output, beside, camera, render, origin, n, cur,
                   result, pre>>

\* What render_equirectangle_streetview may be given: the position (the
\* altitude in decimetres), the compass angle and the passes.
Positions == {<<Coord(0, TRUE), Coord(0, TRUE), 100>>,
              <<Coord(1, TRUE), Coord(-1, TRUE), 25>>}

LayerLists == {<<Depth>>, <<Depth, Normal>>, <<Normal, Mist>>}

RenderStreetview ==
    /\ pc = "direct"
    /\ n < MaxRecords
    /\ n' = n + 1
    /\ \E xyz \in Positions, angle \in {90, 450}, layers \in LayerLists,
          id \in Ids, replaces \in BOOLEAN :
          LET st == render_equirectangle_streetview(
                        xyz, angle, layers, Join(savedir, id), n + 1, replaces)
          IN  /\ camera' = st.camera
              /\ links' = st.tree.links
              /\ render' = [render EXCEPT !.filepath = st.filepath]
              /\ staging' = st.staging
              /\ output' = st.output
              /\ beside' = st.beside
              /\ err' = st.tree.err
              /\ pc' = IF st.tree.err = NoErr THEN "direct" ELSE "halted"
    /\ UNCHANGED <<platform, rl_outputs, host_suffix, dataset, requested, use_nodes, nodes,
                   save_dirs, origin, cur, result, pre>>

InitDirect ==
    /\ pc = "direct"
    /\ platform = "posix"
    /\ rl_outputs \in {PassNames, {Depth, Normal}}
    /\ host_suffix = Jpg
    /\ \E scene \in {<<FALSE, <<>>, {}, <<>>>>,
                     <<TRUE, DefaultNodes, DefaultLinks, <<>>>>,
                     <<TRUE, BuiltNodes(<<Depth, Normal>>),
                       BuiltLinks(<<Depth, Normal>>), <<Depth, Normal>>>>} :
          /\ use_nodes = scene[1]
          /\ nodes = scene[2]
          /\ links = scene[3]
          /\ requested = scene[4]
          /\ save_dirs = BuiltDirs(scene[4])
    /\ staging = [d \in StagingDirs |-> NoDir]
    /\ output \in SUBSET {LeftOver("A_Depth", Depth)}
    /\ beside = {}
    /\ camera = DefaultCamera
    /\ render = DefaultRender
    /\ origin = TransverseMercator(Whole(0), Whole(0))
    /\ dataset = <<>>
    /\ n = 0
    /\ cur = NoRecord
    /\ result = NoResult
    /\ pre = NoPre
    /\ err = NoErr

NextDirect ==
    \/ InitNodeTree
    \/ SelectPass
    \/ CleanNodes
    \/ RenderStreetview

SpecDirect == InitDirect /\ [][NextDirect]_vars

-----------------------------------------------------------------------------
(* Properties *)

LayerOf(dir) == dir[Len(dir)]

\* The name <record id>_<layer name><suffix> in the output directory.
Target(id, layer, suffix) == Cat(Cat(Cat(Stem(id), <<"_">>), layer), suffix)

HeldBefore(k) == pre.staging[save_dirs[k]].entries

\* C1: no staging directory ever holds files of two different records, and
\* once the reconcile step of a record is over every staging directory of
\* the table is empty before the next record is placed.
C1_StagingDrained ==
    /\ \A d \in StagingDirs :
          \A e1, e2 \in staging[d].entries : e1.data.rec = e2.data.rec
    /\ (pc \in {"read", "place"} /\ n >= 1) =>
          \A k \in DOMAIN save_dirs : staging[save_dirs[k]].entries = {}

\* The one file directory k held is now in the output directory under
\* <id>_<layer><suffix>, once, and nowhere in the staging directories.
Relocated(k, suffix) ==
    LET f      == CHOOSE e \in HeldBefore(k) : TRUE
        target == Target(cur.image_id, LayerOf(save_dirs[k]), suffix)
    IN  /\ staging[save_dirs[k]].entries = {}
        /\ File(target, f.data) \in output
        /\ Cardinality({o \in output : o.data = f.data}) = 1
        /\ \A d \in StagingDirs : \A e \in staging[d].entries : e.data # f.data

\* C2: when move_render_passes returns, every layer whose staging directory
\* held exactly one file has had it moved to <id>_<layer><ext>, <ext> being
\* the file's own extension; its directory is empty, and the file is in the
\* output directory once and nowhere else.
C2_KeepsExtension ==
    pc = "read" =>
        \A k \in DOMAIN save_dirs :
            Cardinality(HeldBefore(k)) = 1 =>
                Relocated(k, Suffix((CHOOSE e \in HeldBefore(k) : TRUE).name))

\* C3: a staging directory of the table holding no file or more than one
\* makes move_render_passes fail, and no file of that directory is moved.
C3_ZeroOrManyFails ==
    pc \in {"read", "halted"} =>
        \A k \in DOMAIN save_dirs :
            Cardinality(HeldBefore(k)) # 1 =>
                /\ err # NoErr
                /\ staging[save_dirs[k]] = pre.staging[save_dirs[k]]

\* C4: a file already in the output directory is never overwritten, and
\* move_render_passes fails when a target of the table already exists.
C4_NeverOverwrites ==
    pc \in {"read", "halted"} =>
        /\ pre.output \subseteq output
        /\ pc = "read" =>
              \A k \in DOMAIN save_dirs :
                  ~HasName(pre.output,
                           Target(cur.image_id, LayerOf(save_dirs[k]), Jpg))

\* The layers of record `id` this run has written to the output directory.
LayersWritten(id) ==
    {l \in Range(requested) :
        \E o \in output : o.data.rec >= 0 /\ o.name = Target(id, l, Jpg)}

\* C5: when the run has ended, normally or by a failure, every record id has
\* all of its layers in the output directory or none.
C5_AllOrNone ==
    pc \in {"done", "halted"} =>
        \A id \in Ids : LayersWritten(id) \in {{}, Range(requested)}

\* What create_nodes leaves when every name is an output of the source node:
\* the source, one sink per name wired to it, the table in input order.
GraphAndTableBuilt ==
    /\ nodes = BuiltNodes(requested)
    /\ links = BuiltLinks(requested)
    /\ save_dirs = BuiltDirs(requested)

\* C6: create_nodes leaves only the source node and one wired sink per
\* requested layer, returns the table in input order, and every directory of
\* the table exists and is empty.
C6_BuiltWithEmptyDirs ==
    pc = "projection" =>
        /\ GraphAndTableBuilt
        /\ \A k \in DOMAIN save_dirs : staging[save_dirs[k]] = Dir({})

\* The part of C6 the code keeps: the graph and the table, not the directories.
C6_GraphOnly == pc = "projection" => GraphAndTableBuilt

Unknown == {i \in DOMAIN requested : requested[i] \notin rl_outputs}

\* C7: create_nodes fails with UnknownLayerError on the first requested name
\* that is not an output of the source node, the error names it, and no
\* table is returned; it returns a table only when every name is known, and
\* then one for every name.
C7_UnknownLayerFails ==
    pc \in {"projection", "halted"} =>
        IF Unknown # {}
        THEN /\ pc = "halted"
             /\ err.type = "UnknownLayerError"
             /\ err.names = {requested[CHOOSE i \in Unknown :
                                          \A j \in Unknown : i <= j]}
             /\ save_dirs = <<>>
        ELSE /\ pc = "projection"
             /\ err = NoErr
             /\ save_dirs = BuiltDirs(requested)

\* The exception names the record: its id, or a file <id>_<layer>.
Tagged(e, id) ==
    \E name \in e.names :
        name = id \/ \E l \in PassNames : name = Target(id, l, Suffix(name))

Allowed ==
    {<<"start", "nodes">>, <<"nodes", "projection">>, <<"nodes", "halted">>,
     <<"projection", "read">>, <<"read", "place">>, <<"read", "done">>,
     <<"place", "render">>, <<"place", "halted">>, <<"render", "reconcile">>,
     <<"reconcile", "read">>, <<"reconcile", "halted">>}

\* A step of the run: INIT -> (PLACE -> RENDER -> RECONCILE)* -> DONE, a new
\* record only at PLACE, the next one of the dataset, and DONE only after
\* the last; an exception if and only if the run halts.
SequentialStep ==
    /\ <<pc, pc'>> \in Allowed
    /\ IF pc' = "place" THEN n' = n + 1 /\ cur' = dataset[n']
       ELSE n' = n /\ cur' = cur
    /\ pc' = "done" => n' = Len(dataset)
    /\ (pc' = "halted") <=> (err' # NoErr)

\* C8: the run follows the state machine, one cycle per record in the order
\* of the dataset, it halts on the first failure with no step of a later
\* record, and the error of a record's step carries that record's id.
C8_HaltsTagged ==
    [][/\ SequentialStep
       /\ (pc' = "halted" /\ n' >= 1) => Tagged(err', cur'.image_id)]_vars

\* C9: when the render of a record is triggered the camera holds the
\* projected position with the altitude raised by 0.3 m and the orientation
\* (90 deg, 0, -angle) in radians, of this record alone, the angle as given.
C9_PoseAtRender ==
    pc \in {"render", "reconcile"} =>
        LET xy == from_geographic(origin, cur.lat, cur.lon)
        IN  /\ camera.location = <<xy.x, xy.y, cur.computed_altitude + 3>>
            /\ camera.rotation_euler =
                  <<<<1, 2>>, <<0, 1>>, Frac(-cur.computed_compass_angle, 180)>>
            /\ cur.computed_compass_angle = 450 =>
                  camera.rotation_euler[3] = <<-5, 2>>
            /\ cur.computed_compass_angle = -90 =>
                  camera.rotation_euler[3] = <<1, 2>>

C9_WitnessSecondPose ==
    /\ pc = "render"
    /\ n = 2
    /\ cur.computed_compass_angle = 450
    /\ camera.rotation_euler = <<<<1, 2>>, <<0, 1>>, <<-5, 2>>>>
    /\ camera.location[3] = 28

\* lon - lon0 in degrees, <<whole, hairs>>.
Dlon ==
    <<cur.lon[1] - (origin.lon.whole[1] * 180) \div origin.lon.whole[2],
      cur.lon[2] - origin.lon.hair>>

AtOrigin == Dlon = Whole(0) /\ radians(cur.lat) = origin.lat

\* |lon - lon0| < 90 degrees
Within90 ==
    \/ Abs(Dlon[1]) < 90
    \/ Dlon[1] = 90 /\ Dlon[2] < 0
    \/ Dlon[1] = -90 /\ Dlon[2] > 0

\* cos(lon - lon0) = 0, and B = 1 or -1: lon - lon0 an odd multiple of 90
\* degrees (on the equator for B).
Singular == Dlon[2] = 0 /\ Dlon[1] \in {90, -90, 270, -270}

\* C10: from_geographic returns (0, 0) at the origin and finite coordinates
\* wherever |lon - lon0| < 90 degrees; where cos(lon - lon0) is 0 or B is 1
\* or -1 it fails with DomainError, and it never returns an infinite
\* coordinate. A sign the rounding decides (2) is taken as 0 at the origin.
C10_RaisesAtSingularities ==
    pc \in {"render", "halted"} =>
        /\ err = NoErr => result.x.finite /\ result.y.finite
        /\ AtOrigin => err = NoErr /\ result.x.s = 0 /\ result.y.s \in {0, 2}
        /\ Within90 => err = NoErr
        /\ Singular => err.type = "DomainError"

====
